---- MODULE Spec2Model ----
(***************************************************************************)
(* Model of src/miner.js: a Node.js mining client.  A timer calls          *)
(* startMining every 10 s; a round fetches the pending transactions,       *)
(* searches a nonce with parallelThreads "parallel" tasks, POSTs the mined *)
(* block and, on failure, runs a bounded retry loop.                       *)
(*                                                                         *)
(* Execution model: one JavaScript event loop.  `running` is the round     *)
(* whose code is on the call stack (0: the loop is idle).  A callback runs *)
(* to completion: while running = r no timer and no other round's          *)
(* continuation can run.  mineSingleTask is an async function without any  *)
(* await, so a call to it runs its whole do-while loop before it returns   *)
(* its (already resolved) promise.  The model shows the steps of such a    *)
(* callback one by one, all under running = r.                             *)
(***************************************************************************)
EXTENDS Integers, Sequences, FiniteSets, TLC

\* ------------------------------------------------------------------ bounds
\* Number of timer ticks (rounds) followed.
MaxRounds == 2
\* Hash trials of one worker that are followed; a worker that has found no
\* match by then keeps searching outside the modelled window ("spinning").
MaxTrials == 3
\* The difficulty is drawn from 0..MaxDifficulty (4 in the source).
MaxDifficulty == 3
\* Distance between the starting nonces of two workers, scaled down from the
\* source's 1000000 so that a search can cross into the next worker's range.
Stride == 2
\* Number of characters of a digest, scaled down from SHA-256's 64.
HashLen == 3

\* ------------------------------------------------------- program constants
parallelThreads == 4
maxRetries == 3
retryDelayMs == 12000
minerAddress == "miner1"

Rounds == 1..MaxRounds
Workers == 0..(parallelThreads - 1)
Min(a, b) == IF a < b THEN a ELSE b

\* ------------------------------------------------------------ transactions
\* The reward transaction pushed by mineBlock.
RewardTx == [Holly |-> 512, Transmitter |-> "Coinbase", Target |-> minerAddress,
             BlockReward |-> TRUE]
\* A transaction as the service returns it.
PendingTx(k) == [Holly |-> k, Transmitter |-> "alice", Target |-> "bob",
                 BlockReward |-> FALSE]
RECURSIVE TxList(_)
TxList(n) == IF n = 0 THEN <<>> ELSE Append(TxList(n - 1), PendingTx(n))

\* Answers of GET /pending-transactions: a transport error (ok = FALSE), a
\* response whose data is missing or has no pendingTransactions field
\* (hasField = FALSE), an empty list, or a list of one transaction.
FetchResponses ==
    { [ok |-> FALSE, hasField |-> FALSE, pendingTransactions |-> <<>>],
      [ok |-> TRUE, hasField |-> FALSE, pendingTransactions |-> <<>>],
      [ok |-> TRUE, hasField |-> TRUE, pendingTransactions |-> <<>>],
      [ok |-> TRUE, hasField |-> TRUE, pendingTransactions |-> TxList(1)] }

\* getPendingTransactions: the list, or [] on an error or a missing field.
\* (An empty array is truthy in JavaScript and is returned as it is.)
GetPendingTransactions(resp) ==
    IF resp.ok /\ resp.hasField THEN resp.pendingTransactions ELSE <<>>

\* getPendingTransactions: both failure branches log at error level.
FetchLogsError(resp) == ~resp.ok \/ ~resp.hasField

\* startMining: the argument it passes to mineBlock.
StartMiningArg(pending) == IF Len(pending) > 0 THEN pending ELSE <<>>

\* A mineBlock that pushes nothing.
WithoutReward(txs) == txs
\* A mineBlock that pushes the reward onto every list.
WithRewardAlways(txs) == Append(txs, RewardTx)
\* mineBlock: the reward transaction is pushed onto an empty list.
WithReward(txs) == IF Len(txs) = 0 THEN Append(txs, RewardTx) ELSE txs

\* ------------------------------------------------------------------ hashing
\* Characters are small numbers.  Digits '0'..'9' are 0..9.
AddressCode(a) == CASE a = "miner1" -> 11 [] a = "Coinbase" -> 12
                    [] a = "alice" -> 13 [] a = "bob" -> 14 [] OTHER -> 15
TxCode(tx) == <<tx.Holly % 16, AddressCode(tx.Transmitter), AddressCode(tx.Target),
                IF tx.BlockReward THEN 1 ELSE 0>>
RECURSIVE TxsCode(_)
TxsCode(txs) == IF txs = <<>> THEN <<>> ELSE TxCode(Head(txs)) \o TxsCode(Tail(txs))

\* Decimal representation of a non-negative integer, most significant first.
RECURSIVE Decimal(_)
Decimal(n) == IF n < 10 THEN <<n>> ELSE Append(Decimal(n \div 10), n % 10)

\* JSON.stringify({minerAddress, transactions, difficulty}).
Stringify(addr, txs, d) == <<AddressCode(addr)>> \o TxsCode(txs) \o Decimal(d)

\* blockHeader + nonce: string concatenation with the decimal nonce.
BlockData(header, n) == header \o Decimal(n)

\* The alphabet of a digest, cut down from the 16 hexadecimal characters.
HexChars == <<"0", "f">>
RECURSIVE Pow(_, _)
Pow(b, e) == IF e = 0 THEN 1 ELSE b * Pow(b, e - 1)
\* The compression of the digest function: a fold over the characters.
RECURSIVE Absorb(_, _)
Absorb(data, k) ==
    IF k = 0 THEN 3
    ELSE ((Absorb(data, k - 1) * 11) + (data[k] + 1) * 3) % 71
RECURSIVE Digits(_, _)
Digits(v, len) ==
    IF len = 0 THEN <<>>
    ELSE Append(Digits(v \div Len(HexChars), len - 1), HexChars[(v % Len(HexChars)) + 1])
\* crypto.createHash('sha256').update(data).digest('hex'): a fixed function
\* from strings to digests of HashLen characters.
SHA256(data) == Digits(Absorb(data, Len(data)) % Pow(Len(HexChars), HashLen), HashLen)

\* '0'.repeat(d)
RECURSIVE Repeat0(_)
Repeat0(d) == IF d = 0 THEN <<>> ELSE Append(Repeat0(d - 1), "0")
\* String.prototype.substring(0, n)
Substring0(str, n) == SubSeq(str, 1, Min(n, Len(str)))


\* ------------------------------------------------------------------- state
VARIABLES
    difficulty,   \* the global `difficulty`
    ticks,        \* timer firings so far; tick k starts round k
    running,      \* round whose code is on the call stack, 0 when idle
    pc,           \* pc[r]: where round r stands
    pending,      \* pending[r]: what getPendingTransactions returned
    transactions, \* transactions[r]: the list mineBlock works on
    blockHeader,  \* blockHeader[r]: the serialized header of the round
    launched,     \* launched[r]: calls of mineSingleTask made by the map
    nonce,        \* nonce[r][i]: worker i's local nonce
    hash,         \* hash[r][i]: worker i's local hash
    results,      \* results[r][i]: what worker i returned, or NoResult
    tried,        \* tried[r][i]: the nonces worker i has hashed (history)
    minedBlock,   \* minedBlock[r]: what mineProofOfWorkParallel returned
    attempt,      \* attempt[r]: retryMineBlock's loop counter
    posts,        \* posts[r]: the bodies POSTed to /mine, in order
    trace         \* trace[r]: POSTs, sleeps and log lines of the round, in order

vars == <<difficulty, ticks, running, pc, pending, transactions,
          blockHeader, launched, nonce, hash, results, tried, minedBlock, attempt,
          posts, trace>>

search == <<launched, nonce, hash, results, tried>>

NoResult == [nonce |-> -1, hash |-> <<>>]
NoBlock == [transactions |-> <<>>, nonce |-> -1, hash |-> <<>>]

\* Answers of POST /mine: the request fails (network error or rejection) or
\* the service answers {blockHash}.
PostOutcomes == {"error", "ok"}

Init ==
    /\ difficulty \in 0..MaxDifficulty
    /\ ticks = 0
    /\ running = 0
    /\ pc = [r \in Rounds |-> "idle"]
    /\ pending = [r \in Rounds |-> <<>>]
    /\ transactions = [r \in Rounds |-> <<>>]
    /\ blockHeader = [r \in Rounds |-> <<>>]
    /\ launched = [r \in Rounds |-> 0]
    /\ nonce = [r \in Rounds |-> [i \in Workers |-> 0]]
    /\ hash = [r \in Rounds |-> [i \in Workers |-> <<>>]]
    /\ results = [r \in Rounds |-> [i \in Workers |-> NoResult]]
    /\ tried = [r \in Rounds |-> [i \in Workers |-> {}]]
    /\ minedBlock = [r \in Rounds |-> NoBlock]
    /\ attempt = [r \in Rounds |-> 0]
    /\ posts = [r \in Rounds |-> <<>>]
    /\ trace = [r \in Rounds |-> <<>>]

\* ----------------------------------------------------------------- helpers
target == Repeat0(difficulty)

\* The test of the do-while loop and of results.find.
MeetsTarget(h, tgt) == Substring0(h, Len(tgt)) = tgt

\* Workers whose starting nonces are their indices.
StartNonceIndex(index) == index
\* mineSingleTask: the starting nonce of worker `index`.
StartNonce(index) == index * Stride

\* A loop that steps the nonce by two.
NextNonceSkip(n) == n + 2
\* mineSingleTask: nonce++.
NextNonce(n) == n + 1

\* A worker that stops as soon as any worker of the round has a result.
KeepsSearchingUntilAnyResult(r, i, h) ==
    /\ ~MeetsTarget(h, target)
    /\ \A j \in Workers : results[r][j] = [nonce |-> -1, hash |-> <<>>]
\* A loop test against a target one character longer.
KeepsSearchingLongerTarget(r, i, h) == ~MeetsTarget(h, Append(target, "0"))
\* mineSingleTask: the loop goes on while the hash misses the target.
KeepsSearching(r, i, h) == ~MeetsTarget(h, target)

\* A worker that counts the nonce once more before it returns.
WorkerResultOffByOne(n, h) == [nonce |-> n + 1, hash |-> h]
\* mineSingleTask: return { nonce, hash }.
WorkerResult(n, h) == [nonce |-> n, hash |-> h]

\* A map that ends after its first call.
MapDoneAfterFirst(r) == launched[r] >= 1
\* mineProofOfWorkParallel: the map has called mineSingleTask for every index.
MapDone(r) == launched[r] = parallelThreads

\* Promise.all(miningTasks): every task of the array has returned.
AllSettled(r) == \A i \in 0..(launched[r] - 1) : results[r][i] # NoResult

\* results.find(...): the index of the first result that meets the target,
\* -1 when there is none.
\* A re-validation against a target one character longer.
ValidIndicesStrict(r) == { i \in 0..(launched[r] - 1) :
                             Substring0(results[r][i].hash, difficulty + 1)
                               = Append(target, "0") }
ValidIndices(r) == { i \in 0..(launched[r] - 1) :
                       Substring0(results[r][i].hash, difficulty) = target }
\* A search from the end of the array.
FindValidLast(r) ==
    IF ValidIndices(r) = {} THEN -1
    ELSE CHOOSE i \in ValidIndices(r) : \A j \in ValidIndices(r) : i >= j
FindValid(r) ==
    IF ValidIndices(r) = {} THEN -1
    ELSE CHOOSE i \in ValidIndices(r) : \A j \in ValidIndices(r) : i <= j

\* The body of the first POST and of a retry POST.
FullBody(block) == [minerAddress |-> minerAddress, transactions |-> block.transactions,
                    nonce |-> block.nonce, hash |-> block.hash]
\* A retry that sends the mined block again.
RetryBodyWithBlock(block) == [minerAddress |-> minerAddress, transactions |-> block.transactions,
                              nonce |-> block.nonce, hash |-> block.hash]
RetryBody(block) == [minerAddress |-> minerAddress]

\* retryMineBlock: the test of the for loop, attempt <= retries.
LoopContinues(a) == a <= maxRetries
\* A catch block that sleeps after the last attempt too.
AttemptsLeftOneMore(a) == a <= maxRetries
\* A catch block that always sleeps.
AttemptsLeftAlways(a) == TRUE
\* retryMineBlock: the test of the catch block, attempt < retries.
AttemptsLeft(a) == a < maxRetries

Ev(kind, n) == [kind |-> kind, n |-> n]

\* A retryMineBlock that throws after its last attempt: startMining's last
\* line is not reached.
GiveUpEventsThrow(a) == <<Ev("attemptFailed", a), Ev("allFailed", 0)>>
\* The last attempt fails: the catch logs it, the loop ends, retryMineBlock
\* logs that all attempts failed and returns, mineBlock returns, and
\* startMining logs its last line.
GiveUpEvents(a) == <<Ev("attemptFailed", a), Ev("allFailed", 0), Ev("complete", 0)>>

\* A loop that takes timers and I/O callbacks while a callback is running.
EventLoopIdleAlways == TRUE
\* The event loop takes the next timer or I/O callback only when the call
\* stack is empty.
EventLoopIdle == running = 0

\* ----------------------------------------------------------------- actions
\* setInterval fires: startMining runs up to the GET of getPendingTransactions.
Tick ==
    /\ EventLoopIdle
    /\ ticks < MaxRounds
    /\ ticks' = ticks + 1
    /\ pc' = [pc EXCEPT ![ticks + 1] = "fetching"]
    /\ trace' = [trace EXCEPT ![ticks + 1] = Append(@, Ev("start", ticks + 1))]
    /\ UNCHANGED <<difficulty, running, pending, transactions,
                   blockHeader, minedBlock, attempt, posts>>
    /\ UNCHANGED search

\* The GET settles: getPendingTransactions returns, startMining calls mineBlock,
\* which pushes the reward onto an empty list and calls mineProofOfWorkParallel,
\* which serializes the header.  The round now holds the call stack.
FetchReturn(r, resp) ==
    /\ EventLoopIdle
    /\ pc[r] = "fetching"
    /\ pending' = [pending EXCEPT ![r] = GetPendingTransactions(resp)]
    /\ transactions' = [transactions EXCEPT
                          ![r] = WithReward(StartMiningArg(GetPendingTransactions(resp)))]
    /\ blockHeader' = [blockHeader EXCEPT
                         ![r] = Stringify(minerAddress, transactions'[r], difficulty)]
    /\ pc' = [pc EXCEPT ![r] = "mapping"]
    /\ running' = r
    /\ trace' = [trace EXCEPT ![r] =
                   IF FetchLogsError(resp) THEN Append(@, Ev("fetchError", 0)) ELSE @]
    /\ UNCHANGED <<difficulty, ticks, minedBlock, attempt, posts>>
    /\ UNCHANGED search

\* One pass of the do-while loop of worker i: nonce++, hash, loop test.  The
\* worker returns {nonce, hash} when the test fails; the map then goes on to
\* the next index, or ends.
Pass(r, i, from) ==
    LET n == NextNonce(from)
        h == SHA256(BlockData(blockHeader[r], n))
    IN
      /\ nonce' = [nonce EXCEPT ![r][i] = n]
      /\ hash' = [hash EXCEPT ![r][i] = h]
      /\ tried' = [tried EXCEPT ![r][i] = @ \cup {n}]
      /\ IF KeepsSearching(r, i, h)
         THEN /\ results' = results
              /\ pc' = [pc EXCEPT ![r] = "hashing"]
         ELSE /\ results' = [results EXCEPT ![r][i] = WorkerResult(n, h)]
              /\ pc' = [pc EXCEPT ![r] = IF MapDone(r)' THEN "awaitAll" ELSE "mapping"]

\* The map callback calls mineSingleTask for the next index: the worker sets
\* its nonce to its starting nonce and makes the first pass of its loop.
Launch(r) ==
    /\ running = r
    /\ pc[r] = "mapping"
    /\ ~MapDone(r)
    /\ launched' = [launched EXCEPT ![r] = @ + 1]
    /\ Pass(r, launched[r], StartNonce(launched[r]))
    /\ UNCHANGED <<difficulty, ticks, running, pending, transactions,
                   blockHeader, minedBlock, attempt, posts, trace>>

\* A further pass of the loop of the worker launched last.
Trial(r) ==
    /\ running = r
    /\ pc[r] = "hashing"
    /\ Cardinality(tried[r][launched[r] - 1]) < MaxTrials
    /\ UNCHANGED launched
    /\ Pass(r, launched[r] - 1, nonce[r][launched[r] - 1])
    /\ UNCHANGED <<difficulty, ticks, running, pending, transactions,
                   blockHeader, minedBlock, attempt, posts, trace>>

\* The worker has found nothing in the modelled window: its loop goes on
\* beyond it, and with it the round keeps the call stack.
Exhaust(r) ==
    /\ running = r
    /\ pc[r] = "hashing"
    /\ Cardinality(tried[r][launched[r] - 1]) = MaxTrials
    /\ pc' = [pc EXCEPT ![r] = "spinning"]
    /\ UNCHANGED <<difficulty, ticks, running, pending, transactions,
                   blockHeader, minedBlock, attempt, posts, trace>>
    /\ UNCHANGED search

\* Promise.all resolves (in a microtask, before any timer or I/O callback):
\* mineProofOfWorkParallel picks the first valid result and returns, and
\* mineBlock POSTs the block.  Were there no valid result, the throw would be
\* caught by mineBlock's catch, which calls retryMineBlock.
Collect(r) ==
    /\ running = r
    /\ pc[r] = "awaitAll"
    /\ AllSettled(r)
    /\ IF FindValid(r) # -1
       THEN LET v == results[r][FindValid(r)]
                block == [transactions |-> transactions[r], nonce |-> v.nonce,
                          hash |-> v.hash]
            IN /\ minedBlock' = [minedBlock EXCEPT ![r] = block]
               /\ posts' = [posts EXCEPT ![r] = Append(@, FullBody(block))]
               /\ trace' = [trace EXCEPT ![r] = @ \o <<Ev("mined", v.nonce), Ev("postFull", 0)>>]
               /\ pc' = [pc EXCEPT ![r] = "posting"]
               /\ UNCHANGED attempt
       ELSE /\ attempt' = [attempt EXCEPT ![r] = 1]
            /\ posts' = [posts EXCEPT ![r] = Append(@, RetryBody(minedBlock[r]))]
            /\ trace' = [trace EXCEPT ![r] = @ \o <<Ev("errorMining", 0), Ev("postRetry", 1)>>]
            /\ pc' = [pc EXCEPT ![r] = "retrying"]
            /\ UNCHANGED minedBlock
    /\ running' = 0
    /\ UNCHANGED <<difficulty, ticks, pending, transactions, blockHeader>>
    /\ UNCHANGED search

\* The first POST settles.  Success: mineBlock logs the block hash and returns,
\* startMining logs completion.  Failure: the catch logs and calls
\* retryMineBlock, which POSTs attempt 1.
PostReturn(r, out) ==
    /\ EventLoopIdle
    /\ pc[r] = "posting"
    /\ IF out = "ok"
       THEN /\ trace' = [trace EXCEPT ![r] = @ \o <<Ev("accepted", 0), Ev("added", 0),
                                                    Ev("complete", 0)>>]
            /\ pc' = [pc EXCEPT ![r] = "done"]
            /\ UNCHANGED <<attempt, posts>>
       ELSE /\ attempt' = [attempt EXCEPT ![r] = 1]
            /\ posts' = [posts EXCEPT ![r] = Append(@, RetryBody(minedBlock[r]))]
            /\ trace' = [trace EXCEPT ![r] =
                           @ \o <<Ev("errorMining", 0), Ev("postRetry", 1)>>]
            /\ pc' = [pc EXCEPT ![r] = "retrying"]
    /\ UNCHANGED <<difficulty, ticks, running, pending, transactions,
                   blockHeader, minedBlock>>
    /\ UNCHANGED search

\* A retry POST settles.  Success: retryMineBlock returns and startMining logs
\* completion.  Failure: sleep(delay) when attempts remain, else the loop ends
\* with the "all retry attempts failed" line and startMining logs completion.
RetryReturn(r, out) ==
    /\ EventLoopIdle
    /\ pc[r] = "retrying"
    /\ IF out = "ok"
       THEN /\ trace' = [trace EXCEPT ![r] = @ \o <<Ev("accepted", attempt[r]),
                                                    Ev("retryOk", attempt[r]),
                                                    Ev("complete", 0)>>]
            /\ pc' = [pc EXCEPT ![r] = "done"]
       ELSE IF AttemptsLeft(attempt[r])
       THEN /\ trace' = [trace EXCEPT ![r] =
                           @ \o <<Ev("attemptFailed", attempt[r]), Ev("sleep", retryDelayMs)>>]
            /\ pc' = [pc EXCEPT ![r] = "sleeping"]
       ELSE /\ trace' = [trace EXCEPT ![r] = @ \o GiveUpEvents(attempt[r])]
            /\ pc' = [pc EXCEPT ![r] = "done"]
    /\ UNCHANGED <<difficulty, ticks, running, pending, transactions,
                   blockHeader, minedBlock, attempt, posts>>
    /\ UNCHANGED search

\* The sleep timer fires: the for loop increments attempt and, its test
\* passing, POSTs again; otherwise retryMineBlock returns.
Wake(r) ==
    /\ EventLoopIdle
    /\ pc[r] = "sleeping"
    /\ attempt' = [attempt EXCEPT ![r] = @ + 1]
    /\ IF LoopContinues(attempt[r] + 1)
       THEN /\ posts' = [posts EXCEPT ![r] = Append(@, RetryBody(minedBlock[r]))]
            /\ trace' = [trace EXCEPT ![r] = Append(@, Ev("postRetry", attempt[r] + 1))]
            /\ pc' = [pc EXCEPT ![r] = "retrying"]
       ELSE /\ posts' = posts
            /\ trace' = [trace EXCEPT ![r] = Append(@, Ev("complete", 0))]
            /\ pc' = [pc EXCEPT ![r] = "done"]
    /\ UNCHANGED <<difficulty, ticks, running, pending, transactions,
                   blockHeader, minedBlock>>
    /\ UNCHANGED search

Next ==
    \/ Tick
    \/ \E r \in Rounds, resp \in FetchResponses : FetchReturn(r, resp)
    \/ \E r \in Rounds : Launch(r)
    \/ \E r \in Rounds : Trial(r)
    \/ \E r \in Rounds : Exhaust(r)
    \/ \E r \in Rounds : Collect(r)
    \/ \E r \in Rounds, out \in PostOutcomes : PostReturn(r, out)
    \/ \E r \in Rounds, out \in PostOutcomes : RetryReturn(r, out)
    \/ \E r \in Rounds : Wake(r)

Spec == Init /\ [][Next]_vars

\* The event loop runs a callback that is ready: a timer that is due fires,
\* a request that was sent settles, and the code on the call stack takes its
\* next step.
FairSpec == Spec /\ WF_vars(Next)

\* ------------------------------------------------------------------ claims
InProgress(r) == pc[r] \notin {"idle", "done"}
Searched(r) == pc[r] \in {"posting", "retrying", "sleeping", "done"}
Returned(r, i) == results[r][i] # NoResult
Count(r, kind) == Cardinality({ k \in 1..Len(trace[r]) : trace[r][k].kind = kind })
FullPosts(r) == { k \in 1..Len(posts[r]) : "nonce" \in DOMAIN posts[r][k] }
AllZero(h, d) == Len(h) >= d /\ \A k \in 1..d : h[k] = "0"

\* C1: the hash of a mined block, and of every full block that is POSTed, is
\* the digest of the round's header followed by the decimal nonce, the header
\* being that of the block's transactions, and its first `difficulty`
\* characters are all '0'.
C1_AcceptedHashValid ==
    \A r \in Rounds :
      /\ minedBlock[r] # NoBlock =>
           /\ minedBlock[r].hash = SHA256(blockHeader[r] \o Decimal(minedBlock[r].nonce))
           /\ AllZero(minedBlock[r].hash, difficulty)
      /\ \A k \in FullPosts(r) :
           /\ blockHeader[r] = Stringify(posts[r][k].minerAddress, posts[r][k].transactions,
                                         difficulty)
           /\ posts[r][k].nonce = minedBlock[r].nonce
           /\ posts[r][k].hash = minedBlock[r].hash
           /\ minedBlock[r] # NoBlock
\* A block found after more than one trial at a difficulty of 2 is POSTed.
C1_Witness ==
    \E r \in Rounds : /\ FullPosts(r) # {}
                      /\ difficulty >= 2
                      /\ minedBlock[r].nonce > 1

\* C2: at most one round is in progress at any time (the claim as stated).
C2_NoOverlappingRounds ==
    \A r1, r2 \in Rounds : (r1 # r2 /\ InProgress(r1)) => ~InProgress(r2)

C4_SelectAfterAllReturned ==
    \A r \in Rounds :
      (minedBlock[r] # NoBlock \/ posts[r] # <<>> \/ Searched(r)) =>
        /\ launched[r] = parallelThreads
        /\ \A i \in Workers : Returned(r, i)
\* A block is selected in a round whose last worker needed several trials.
C4_Witness ==
    \E r \in Rounds : /\ minedBlock[r] # NoBlock
                      /\ Cardinality(tried[r][parallelThreads - 1]) >= 2

\* C5: a round selects one result and sends at most one full block; the
\* selected result is that of the lowest-indexed worker whose hash meets the
\* target, and a full block carries that nonce and hash and no other.
C5_LowestIndexWins ==
    \A r \in Rounds :
      /\ Count(r, "mined") <= 1
      /\ Cardinality(FullPosts(r)) <= 1
      /\ (minedBlock[r] = NoBlock) = (Count(r, "mined") = 0)
      /\ minedBlock[r] # NoBlock =>
           \E i \in Workers :
             /\ Returned(r, i) /\ AllZero(results[r][i].hash, difficulty)
             /\ \A j \in 0..(i - 1) : ~(Returned(r, j) /\ AllZero(results[r][j].hash, difficulty))
             /\ minedBlock[r].nonce = results[r][i].nonce
             /\ minedBlock[r].hash = results[r][i].hash
      /\ \A k \in FullPosts(r) : /\ posts[r][k].nonce = minedBlock[r].nonce
                                 /\ posts[r][k].hash = minedBlock[r].hash
\* A block is POSTed in a round where workers 0 and 3 returned different
\* nonces, both meeting the target.
C5_Witness ==
    \E r \in Rounds : /\ FullPosts(r) # {}
                      /\ results[r][0].nonce # results[r][3].nonce
                      /\ AllZero(results[r][3].hash, difficulty)
                      /\ difficulty >= 1

\* The events of a round from its first failed POST on, when all retries fail.
AllFailedSuffix ==
    <<Ev("errorMining", 0),
      Ev("postRetry", 1), Ev("attemptFailed", 1), Ev("sleep", retryDelayMs),
      Ev("postRetry", 2), Ev("attemptFailed", 2), Ev("sleep", retryDelayMs),
      Ev("postRetry", 3), Ev("attemptFailed", 3), Ev("allFailed", 0), Ev("complete", 0)>>
\* C6: a round makes at most maxRetries retry POSTs and at most 1 + maxRetries
\* POSTs; if no POST of a finished round was accepted, the round made exactly
\* maxRetries retry POSTs, slept retryDelayMs between consecutive attempts and
\* not after the last, then reported that all attempts failed, and did
\* nothing more: no POST, no sleep, no second search.
C6_RetryBound ==
    \A r \in Rounds :
      /\ Count(r, "postRetry") <= maxRetries
      /\ Len(posts[r]) <= 1 + maxRetries
      /\ Count(r, "allFailed") > 0 => pc[r] = "done"
      /\ (pc[r] = "done" /\ Count(r, "accepted") = 0) =>
           /\ Len(trace[r]) > Len(AllFailedSuffix)
           /\ SubSeq(trace[r], Len(trace[r]) - Len(AllFailedSuffix) + 1, Len(trace[r]))
                = AllFailedSuffix
           /\ Count(r, "postRetry") = maxRetries
           /\ Count(r, "sleep") = maxRetries - 1
           /\ Count(r, "mined") = 1
           /\ Len(posts[r]) = 1 + maxRetries
\* A round ends with all its POSTs failed.
C6_Witness ==
    \E r \in Rounds : pc[r] = "done" /\ Count(r, "allFailed") = 1

\* C7: no nonce is hashed by two workers of the same round (the claim as
\* stated).
C7_DisjointNonceSets ==
    \A r \in Rounds : \A i, j \in Workers :
      i # j => tried[r][i] \cap tried[r][j] = {}

\* C8: a round that mined a block POSTs the full body first and only once,
\* with the block's transactions, nonce and hash; every later POST is a retry
\* and carries the miner address and nothing else; a round POSTs nothing
\* before it has mined a block.
C8_FullOnceRetriesMinimal ==
    \A r \in Rounds :
      /\ minedBlock[r] = NoBlock => posts[r] = <<>>
      /\ minedBlock[r] # NoBlock =>
           /\ Len(posts[r]) >= 1
           /\ DOMAIN posts[r][1] = {"minerAddress", "transactions", "nonce", "hash"}
           /\ posts[r][1].minerAddress = minerAddress
           /\ posts[r][1].transactions = minedBlock[r].transactions
           /\ posts[r][1].nonce = minedBlock[r].nonce
           /\ posts[r][1].hash = minedBlock[r].hash
           /\ \A k \in 2..Len(posts[r]) :
                /\ DOMAIN posts[r][k] = {"minerAddress"}
                /\ posts[r][k].minerAddress = minerAddress
      /\ Len(posts[r]) = Count(r, "postFull") + Count(r, "postRetry")
      /\ Count(r, "postFull") <= 1
\* A round has POSTed its block and two retries.
C8_Witness ==
    \E r \in Rounds : Len(posts[r]) >= 3 /\ Count(r, "postFull") = 1

\* C10: a round whose fetch failed, or was answered without the
\* pendingTransactions field (both are logged as errors), gets the empty list
\* from getPendingTransactions and goes on: it works on the reward transaction
\* alone, and the block it mines and POSTs holds that transaction and no other.
FetchFailed(r) == Count(r, "fetchError") > 0
C10_FetchFailureMinesReward ==
    \A r \in Rounds :
      FetchFailed(r) =>
        /\ pending[r] = <<>>
        /\ transactions[r] = <<RewardTx>>
        /\ minedBlock[r] # NoBlock => minedBlock[r].transactions = <<RewardTx>>
        /\ \A k \in FullPosts(r) : posts[r][k].transactions = <<RewardTx>>
        /\ pc[r] = "done" => FullPosts(r) = {1}
\* A round whose fetch failed has POSTed its reward-only block and finished.
C10_Witness ==
    \E r \in Rounds : /\ FetchFailed(r)
                      /\ pc[r] = "done"
                      /\ FullPosts(r) = {1}
                      /\ posts[r][1].transactions = <<RewardTx>>

\* The reward transactions of a list.
Rewards(txs) == { k \in 1..Len(txs) : txs[k].BlockReward }
MineBlockCalled(r) == pc[r] \notin {"idle", "fetching"}

\* C11: mineBlock pushes one reward transaction, paid to the miner, if and
\* only if the list it was given is empty, and leaves a non-empty list as it
\* is; the push comes before the header is serialized, so the header is that
\* of the list after the push, and the mined and the POSTed block hold that
\* same list.
C11_RewardIffEmpty ==
    \A r \in Rounds :
      MineBlockCalled(r) =>
        /\ pending[r] = <<>> => transactions[r] = <<RewardTx>>
        /\ pending[r] # <<>> => transactions[r] = pending[r]
        /\ Cardinality(Rewards(transactions[r])) = (IF pending[r] = <<>> THEN 1 ELSE 0)
        /\ blockHeader[r] = Stringify(minerAddress, transactions[r], difficulty)
        /\ minedBlock[r] # NoBlock => minedBlock[r].transactions = transactions[r]
        /\ \A k \in FullPosts(r) : posts[r][k].transactions = transactions[r]
\* Two rounds have POSTed their blocks: one was given an empty list, the
\* other a transaction.
C11_Witness ==
    \E r1, r2 \in Rounds :
      /\ FullPosts(r1) # {} /\ pending[r1] = <<>>
      /\ FullPosts(r2) # {} /\ pending[r2] # <<>>
      /\ Rewards(transactions[r2]) = {}

\* C12: the map calls mineSingleTask once for each index 0..parallelThreads-1
\* and for no other; worker i starts at nonce i * Stride, so its first trial
\* is i * Stride + 1; the starting nonces are pairwise distinct and increase
\* with the index; every worker hashes the round's one header against the
\* one target.
C12_WorkersAndStartNonces ==
    \A r \in Rounds :
      /\ launched[r] \in 0..parallelThreads
      /\ Searched(r) => launched[r] = parallelThreads
      /\ \A i \in Workers :
           /\ i >= launched[r] => tried[r][i] = {}
           /\ i < launched[r] =>
                /\ tried[r][i] # {}
                /\ \A n \in tried[r][i] : n >= i * Stride + 1
                /\ i * Stride + 1 \in tried[r][i]
                /\ \A j \in Workers :
                     (j < i) => (\E m \in tried[r][j] : \A n \in tried[r][i] : m < n)
           /\ (Returned(r, i) /\ running = r) =>
                /\ results[r][i].hash = SHA256(BlockData(blockHeader[r], results[r][i].nonce))
                /\ MeetsTarget(results[r][i].hash, Repeat0(difficulty))
\* All workers of a round have been launched and have returned, the last one
\* after several trials.
C12_Witness ==
    \E r \in Rounds : /\ launched[r] = parallelThreads
                      /\ \A i \in Workers : Returned(r, i)
                      /\ Cardinality(tried[r][parallelThreads - 1]) >= 2
                      /\ \A n \in tried[r][parallelThreads - 1] :
                           n > (parallelThreads - 1) * Stride

\* Worker i of round r has made a hash trial and has not returned.
InFlight(r, i) == tried[r][i] # {} /\ ~Returned(r, i)
TwoInFlight == \E r \in Rounds : \E i, j \in Workers :
                 i # j /\ InFlight(r, i) /\ InFlight(r, j)

\* C13 as stated: the workers of a round run concurrently, so a run comes to
\* a state in which two workers of one round have each made a hash trial and
\* neither has returned.
C13_WorkersInterleave == <>TwoInFlight
\* What the code does instead: at most one worker of a round is in flight, so
\* no run at all comes to such a state.
C13_OneWorkerInFlight == ~TwoInFlight

\* C14: a worker with starting nonce s hashes s+1, s+2, ... one after the
\* other and in that order, never s itself, so nonce 0 is hashed by no worker;
\* it returns the first of them whose hash meets the target, which is the
\* least such nonce above s; at difficulty 0 it returns s+1 after one trial.
C14_WorkerSequence ==
    \A r \in Rounds : \A i \in Workers :
      i < launched[r] =>
        LET s == i * Stride IN
          /\ tried[r][i] = (s + 1)..nonce[r][i]
          /\ nonce[r][i] > s
          /\ 0 \notin tried[r][i]
          /\ running = r => hash[r][i] = SHA256(BlockData(blockHeader[r], nonce[r][i]))
          /\ Returned(r, i) =>
               /\ results[r][i] = [nonce |-> nonce[r][i], hash |-> hash[r][i]]
               /\ AllZero(results[r][i].hash, difficulty)
               /\ running = r =>
                    \A m \in (s + 1)..(nonce[r][i] - 1) :
                      ~AllZero(SHA256(BlockData(blockHeader[r], m)), difficulty)
               /\ difficulty = 0 => tried[r][i] = {s + 1}
\* The order of the trials: a trial of a worker hashes the nonce that follows
\* the one it hashed last.
C14_TrialsInOrder ==
    [][\A r \in Rounds : \A i \in Workers :
         tried'[r][i] # tried[r][i] =>
           /\ tried'[r][i] = tried[r][i] \cup {nonce'[r][i]}
           /\ \A m \in tried[r][i] : nonce'[r][i] = m + 1 \/ m + 1 \in tried[r][i]
      ]_vars
\* A worker other than worker 0 has returned after three trials, and at
\* difficulty 0 a worker has returned after one.
C14_Witness ==
    \E r \in Rounds : \E i \in Workers :
      /\ i > 0 /\ Returned(r, i)
      /\ \/ Cardinality(tried[r][i]) = 3 /\ difficulty > 0
         \/ Cardinality(tried[r][i]) = 1 /\ difficulty = 0

\* C15: the block that mineProofOfWorkParallel returns carries the nonce and
\* hash of worker 0, which is the least nonce from 1 on whose hash meets the
\* target, whatever the other workers returned; every result passes the
\* re-validation, so the "Failed to mine block" branch is never taken: a
\* round logs a mining error only after it has POSTed its block.
C15_WorkerZeroWins ==
    \A r \in Rounds :
      /\ minedBlock[r] # NoBlock =>
           /\ minedBlock[r].nonce = results[r][0].nonce
           /\ minedBlock[r].hash = results[r][0].hash
           /\ minedBlock[r].nonce >= 1
           /\ tried[r][0] = 1..minedBlock[r].nonce
           /\ \A m \in tried[r][0] :
                (m # minedBlock[r].nonce /\ pc[r] = "posting") =>
                  ~AllZero(SHA256(BlockData(blockHeader[r], m)), difficulty)
      /\ pc[r] = "awaitAll" => (ValidIndices(r) = Workers /\ FindValid(r) = 0)
      /\ Searched(r) => (minedBlock[r] # NoBlock /\ Count(r, "mined") = 1)
      /\ Count(r, "errorMining") > 0 =>
           /\ Count(r, "postFull") = 1
           /\ \A k \in 1..Len(trace[r]) :
                trace[r][k].kind = "errorMining" =>
                  \E j \in 1..(k - 1) : trace[r][j].kind = "postFull"
\* Worker 0's nonce is selected after two trials, although another worker
\* returned a different nonce after fewer.
C15_Witness ==
    \E r \in Rounds : \E i \in Workers :
      /\ minedBlock[r] # NoBlock
      /\ minedBlock[r].nonce = 2
      /\ Cardinality(tried[r][i]) < 2
      /\ results[r][i].nonce # results[r][0].nonce

\* A round is in its proof-of-work search: from the call of mineBlock's
\* search to the return of mineProofOfWorkParallel.
InSearch(r) == pc[r] \in {"mapping", "hashing", "spinning", "awaitAll"}
\* The nonces of worker i that are followed, and whether one of them meets
\* the target of round r.
Window(i) == (i * Stride + 1)..(i * Stride + MaxTrials)
Finds(r, i) == \E n \in Window(i) : AllZero(SHA256(BlockData(blockHeader[r], n)), difficulty)
SearchStarts(r) == pc[r] = "mapping" /\ launched[r] = 0
SearchReturned(r) == minedBlock[r] # NoBlock /\ Searched(r)

RECURSIVE TrialsUpTo(_, _)
TrialsUpTo(r, i) ==
    IF i < 0 THEN 0 ELSE Cardinality(tried[r][i]) + TrialsUpTo(r, i - 1)
SearchWork(r) ==
    launched[r] + TrialsUpTo(r, parallelThreads - 1) + (IF Searched(r) THEN 1 ELSE 0)
SearchStep(r) == Launch(r) \/ Trial(r) \/ Exhaust(r) \/ Collect(r)
\* The search of round r has a next step: it holds the call stack, and the
\* map has a worker left to call, or the worker in flight makes its next
\* pass, or all tasks have settled and Promise.all resolves.
CanStep(r) ==
    /\ running = r
    /\ \/ pc[r] = "mapping" /\ launched[r] < parallelThreads
       \/ pc[r] = "hashing"
       \/ pc[r] = "awaitAll" /\ AllSettled(r)
\* CanStep is the enabling condition of the steps of the search.
CanStepIsEnabled ==
    \A r \in Rounds : InSearch(r) => (CanStep(r) <=> ENABLED SearchStep(r))

C16_ReturnsIfAllFind ==
    \A r \in Rounds :
      (SearchStarts(r) /\ \A i \in Workers : Finds(r, i)) ~> SearchReturned(r)
C16_StuckWitness ==
    \E r \in Rounds : pc[r] = "spinning" /\ Returned(r, 0)

\* C17: after a POST of a round was accepted the round makes no POST and no
\* sleep; the first retry POST follows the failure of the first POST at once;
\* a sleep follows a failed attempt that is not the last and is followed by
\* the next attempt's POST; the last failed attempt is followed by the "all
\* attempts failed" line, not by a sleep.
C17_RetryStopsAndSleeps ==
    \A r \in Rounds : \A k \in 1..Len(trace[r]) :
      LET e == trace[r][k]
          last == Len(trace[r])
      IN
        /\ e.kind = "accepted" =>
             /\ \A j \in (k + 1)..last :
                  trace[r][j].kind \notin {"postFull", "postRetry", "sleep", "accepted"}
             /\ pc[r] = "done"
        /\ e.kind = "errorMining" =>
             /\ k < last
             /\ trace[r][k + 1] = Ev("postRetry", 1)
        /\ e.kind = "sleep" =>
             /\ k > 1
             /\ trace[r][k - 1].kind = "attemptFailed"
             /\ trace[r][k - 1].n < maxRetries
             /\ e.n = retryDelayMs
             /\ IF k = last THEN pc[r] = "sleeping"
                ELSE trace[r][k + 1] = Ev("postRetry", trace[r][k - 1].n + 1)
        /\ e.kind = "postRetry" =>
             (e.n = 1 \/ trace[r][k - 1].kind = "sleep")
        /\ (e.kind = "attemptFailed" /\ e.n = maxRetries) =>
             /\ k < last
             /\ trace[r][k + 1].kind = "allFailed"
\* A round has finished with its second retry accepted, after one sleep.
C17_Witness ==
    \E r \in Rounds : /\ pc[r] = "done"
                      /\ Count(r, "retryOk") = 1
                      /\ Count(r, "sleep") = 1
                      /\ Count(r, "postRetry") = 2

\* C18 as stated: a round logs "Mining process complete. Block successfully
\* mined!" only if one of its POSTs was accepted.
C18_SuccessOnlyIfAccepted ==
    \A r \in Rounds : Count(r, "complete") > 0 => Count(r, "accepted") > 0

AtAwait(r) == pc[r] \in {"idle", "fetching", "posting", "retrying", "sleeping", "done"}
\* C19: while a round is in its search it holds the call stack: no timer tick
\* starts a round and no other round takes a step; a round takes a step only
\* while every other round stands at its fetch, at a POST or in a retry sleep
\* (or has not started, or has finished).
C19_SearchAtomic ==
    /\ [](\A r \in Rounds : InSearch(r) => running = r)
    /\ [][\A r \in Rounds :
            InSearch(r) =>
              /\ ticks' = ticks
              /\ \A q \in Rounds \ {r} :
                   /\ pc'[q] = pc[q]
                   /\ trace'[q] = trace[q]
                   /\ posts'[q] = posts[q]
                   /\ tried'[q] = tried[q]
                   /\ attempt'[q] = attempt[q]
         ]_vars
    /\ [][\A r, q \in Rounds :
            (r # q /\ <<pc[q], trace[q], tried[q]>>' # <<pc[q], trace[q], tried[q]>>)
              => AtAwait(r)
         ]_vars
\* A worker other than the first is searching while another round waits for
\* its fetch, its POST or its sleep to end.
C19_Witness ==
    \E r, q \in Rounds :
      /\ r # q
      /\ pc[r] = "hashing" /\ launched[r] >= 2
      /\ pc[q] \in {"fetching", "posting", "retrying", "sleeping"}

\* The events that report a failure.
FailureKinds == {"fetchError", "errorMining", "attemptFailed", "allFailed"}
\* C20: no error ends a round early.  A round that has ended has run
\* startMining to its last line, whatever failed before, and only such a round
\* has ended; and whenever the event loop is idle the next timer tick can
\* start a round, whatever the earlier rounds did.
C20_NoErrorEscapes ==
    /\ \A r \in Rounds :
         /\ pc[r] = "done" =>
              /\ trace[r][Len(trace[r])] = Ev("complete", 0)
              /\ Count(r, "complete") = 1
         /\ Count(r, "complete") > 0 => pc[r] = "done"
         /\ \A k \in 1..Len(trace[r]) :
              (trace[r][k].kind \in FailureKinds /\ pc[r] = "done") =>
                \E j \in (k + 1)..Len(trace[r]) : trace[r][j].kind = "complete"
    /\ (running = 0 /\ ticks < MaxRounds) => ENABLED Tick
\* A round has ended after its fetch and all its POSTs failed, and the next
\* timer tick can start a round.
C20_Witness ==
    \E r \in Rounds : /\ pc[r] = "done"
                      /\ Count(r, "fetchError") = 1
                      /\ Count(r, "allFailed") = 1
                      /\ Count(r, "attemptFailed") = maxRetries
                      /\ ticks < MaxRounds
                      /\ ENABLED Tick

====
